---- MODULE Spec2Model ----
(***************************************************************************)
(* Model of qmpy_rester/phase_diagram/phase.py: the Phase value object and *)
(* the PhaseData container that indexes phases by name, element and        *)
(* dimensionality.                                                         *)
(*                                                                         *)
(* Numbers are exact rationals <<numerator, denominator>> (denominator > 0,*)
(* lowest terms); Python 3 semantics ("/" is true division, a division by  *)
(* zero raises ZeroDivisionError, dict.keys() is a view).                  *)
(* A Python dict is a function whose DOMAIN is its key set; where the      *)
(* iteration order of a dict decides the result it is a sequence of        *)
(* <<key, value>> pairs.  None is the empty sequence, a present value v is *)
(* <<v>>.  A Python str is a sequence of <<text, number>> tokens.          *)
(***************************************************************************)
EXTENDS Integers, Sequences, FiniteSets, TLC

VARIABLES heap, phases, phase_dict, phases_by_elt, phases_by_dim, space, ph, last

vars == <<heap, phases, phase_dict, phases_by_elt, phases_by_dim, space, ph, last>>

(***************************************************************************)
(* Bounds of the model.                                                    *)
(***************************************************************************)
MaxObjs == 2
MaxPhases == 2

(***************************************************************************)
(* Arithmetic.                                                             *)
(***************************************************************************)
Abs(n) == IF n < 0 THEN -n ELSE n

RECURSIVE GCD(_, _)
GCD(a, b) == IF b = 0 THEN a ELSE GCD(b, a % b)

RNorm(n, d) ==
  LET g == GCD(Abs(n), Abs(d))
      s == IF d < 0 THEN -1 ELSE 1
  IN  <<(s * n) \div g, (s * d) \div g>>

R(n) == <<n, 1>>
RAdd(a, b) == RNorm(a[1] * b[2] + b[1] * a[2], a[2] * b[2])
RSub(a, b) == RNorm(a[1] * b[2] - b[1] * a[2], a[2] * b[2])
RMul(a, b) == RNorm(a[1] * b[1], a[2] * b[2])
RDiv(a, b) == RNorm(a[1] * b[2], a[2] * b[1])
RLt(a, b) == a[1] * b[2] < b[1] * a[2]
RAbs(a) == <<Abs(a[1]), a[2]>>
RIsZero(a) == a[1] = 0

\* sum(d.values()) of a dict d
RECURSIVE SumOver(_, _)
SumOver(d, S) ==
  IF S = {} THEN R(0)
  ELSE LET k == CHOOSE x \in S : TRUE IN RAdd(d[k], SumOver(d, S \ {k}))

SumValues(d) == SumOver(d, DOMAIN d)

EmptyDict == [k \in {} |-> R(0)]

\* the dict d with d[k] = v set
DictSet(d, k, v) == [x \in (DOMAIN d) \cup {k} |-> IF x = k THEN v ELSE d[x]]

\* d[k] of a defaultdict(float): a missing key reads as 0.0
DictGet(d, k) == IF k \in DOMAIN d THEN d[k] ELSE R(0)

(***************************************************************************)
(* Composition helpers of qmpy_rester.utils (imported at line 7).          *)
(***************************************************************************)
Elements == {"Fe", "Li", "O"}

\* the canonical (sorted) order of the element symbols
ElementOrder == <<"Fe", "Li", "O">>

Ok(v) == [err |-> "", val |-> v]
Fail(e) == [err |-> e, val |-> EmptyDict]

\* unit_comp: the composition rescaled so that its amounts sum to 1
unit_comp(c) ==
  LET tot == SumValues(c)
  IN  IF DOMAIN c = {} THEN Ok(c)
      ELSE IF RIsZero(tot) THEN Fail("ZeroDivisionError")
      ELSE Ok([e \in DOMAIN c |-> RDiv(c[e], tot)])

RGcd(a, b) == RNorm(GCD(Abs(a[1]) * b[2], Abs(b[1]) * a[2]), a[2] * b[2])

RECURSIVE GcdOver(_, _)
GcdOver(d, S) ==
  IF S = {} THEN R(0)
  ELSE LET k == CHOOSE x \in S : TRUE IN RGcd(d[k], GcdOver(d, S \ {k}))

\* reduce_comp: the composition divided by the greatest common divisor of its amounts
reduce_comp(c) ==
  LET g == GcdOver(c, DOMAIN c)
  IN  IF DOMAIN c = {} THEN Ok(c)
      ELSE IF RIsZero(g) THEN Fail("ZeroDivisionError")
      ELSE Ok([e \in DOMAIN c |-> RDiv(c[e], g)])

\* format_comp: the display string, one <<element, amount>> token per key in sorted order
format_comp(c) ==
  LET keys == SelectSeq(ElementOrder, LAMBDA e : e \in DOMAIN c)
  IN  [i \in 1..Len(keys) |-> <<keys[i], c[keys[i]]>>]

(***************************************************************************)
(* '%.3g' % v : v rounded to three significant digits.                     *)
(***************************************************************************)
RECURSIVE Exp10(_)
Exp10(a) ==
  IF ~RLt(a, R(10)) THEN 1 + Exp10(RDiv(a, R(10)))
  ELSE IF RLt(a, R(1)) THEN Exp10(RMul(a, R(10))) - 1
  ELSE 0

RECURSIVE IPow10(_)
IPow10(k) == IF k = 0 THEN 1 ELSE 10 * IPow10(k - 1)

Pow10(k) == IF k >= 0 THEN <<IPow10(k), 1>> ELSE <<1, IPow10(-k)>>

Fmt3g(v) ==
  IF RIsZero(v) THEN v
  ELSE LET a == RAbs(v)
           k == Exp10(a)
           scaled == RMul(a, Pow10(2 - k))
           m == (2 * scaled[1] + scaled[2]) \div (2 * scaled[2])
           r == RMul(R(m), Pow10(k - 2))
       IN  IF v[1] < 0 THEN <<-r[1], r[2]>> ELSE r

(***************************************************************************)
(* class Phase.  A Phase object is a record; `index` is 0 until a          *)
(* container assigns it, custom_name is <<>> when unset, phase_dict is the *)
(* sequence of <<constituent, amount>> items (empty unless composite).     *)
(* description and stability are stored and never read; they are left out. *)
(***************************************************************************)
Result(e, p) == [err |-> e, obj |-> p]

\* Phase.natoms
natoms(p) == SumValues(p.nom_comp)

\* Phase.n
n_atoms(p) == SumValues(p.comp)

\* Phase.energy setter
set_energy(p, energy) ==
  LET p1 == [p EXCEPT !.energy = energy,
                      !.total_energy = RMul(energy, SumValues(p.comp))]
  IN  IF RIsZero(SumValues(p.nom_comp)) THEN Result("ZeroDivisionError", p1)
      ELSE Result("", [p1 EXCEPT !.energy_pfu = RDiv(energy, SumValues(p.nom_comp))])

\* a total_energy setter that multiplies where it has to divide
set_total_energy_m(p, energy) ==
  Result("", [p EXCEPT !.total_energy = energy,
                       !.energy = RMul(energy, SumValues(p.comp)),
                       !.energy_pfu = RMul(energy, SumValues(p.nom_comp))])

\* Phase.total_energy setter
set_total_energy(p, energy) ==
  LET p1 == [p EXCEPT !.total_energy = energy]
  IN  IF RIsZero(SumValues(p.comp)) THEN Result("ZeroDivisionError", p1)
      ELSE LET p2 == [p1 EXCEPT !.energy = RDiv(energy, SumValues(p.comp))]
           IN  IF RIsZero(SumValues(p.nom_comp)) THEN Result("ZeroDivisionError", p2)
               ELSE Result("", [p2 EXCEPT !.energy_pfu = RDiv(energy, SumValues(p.nom_comp))])

\* Phase.energy_pfu setter
set_energy_pfu(p, energy) == Result("", [p EXCEPT !.energy_pfu = energy])

\* Phase.__init__; a is the argument record
\* [composition, energy, per_atom, name], composition and energy <<>> when None
PhaseInit(a) ==
  IF a.composition = <<>> \/ a.energy = <<>> THEN [err |-> "PhaseError", obj |-> <<>>]
  ELSE LET c == a.composition[1]
           uc == unit_comp(c)
           nc == reduce_comp(c)
       IN  IF uc.err # "" THEN [err |-> uc.err, obj |-> <<>>]
           ELSE IF nc.err # "" THEN [err |-> nc.err, obj |-> <<>>]
           ELSE LET p0 == [comp |-> c, unit_comp |-> uc.val, nom_comp |-> nc.val,
                           custom_name |-> a.name,
                           energy |-> R(0), total_energy |-> R(0), energy_pfu |-> R(0),
                           phase_dict |-> <<>>, index |-> 0]
                    r == IF ~a.per_atom THEN set_total_energy(p0, a.energy[1])
                         ELSE set_energy(p0, a.energy[1])
                IN  IF r.err # "" THEN [err |-> r.err, obj |-> <<>>]
                    ELSE [err |-> "", obj |-> <<r.obj>>]

\* ' + '.join(terms)
RECURSIVE Join(_)
Join(terms) ==
  IF Len(terms) = 0 THEN <<>>
  ELSE IF Len(terms) = 1 THEN terms[1]
  ELSE terms[1] \o <<<<" + ", R(0)>>>> \o Join(Tail(terms))

\* Phase.name
RECURSIVE name(_)
name(p) ==
  IF p.custom_name # <<>> THEN p.custom_name
  ELSE IF p.phase_dict # <<>>
       THEN Join([i \in 1..Len(p.phase_dict) |->
                   <<<<"%.3g ", Fmt3g(RDiv(p.phase_dict[i][2], natoms(p.phase_dict[i][1])))>>>>
                   \o name(p.phase_dict[i][1])])
       ELSE format_comp(p.nom_comp)

\* Phase.__hash__: the hashed tuple
Hash(p) == <<name(p), p.energy>>

\* the tolerance 1e-6 of Phase.__eq__ is 1 / TolDen
TolDen == 1000000

\* Phase.__eq__
Eq(self, other) ==
  IF DOMAIN self.comp # DOMAIN other.comp THEN FALSE
  ELSE IF RLt(<<1, TolDen>>, RAbs(RSub(self.energy, other.energy))) THEN FALSE
  ELSE \A key \in DOMAIN self.comp :
         ~RLt(<<1, TolDen>>, RAbs(RSub(self.unit_comp[key], other.unit_comp[key])))

\* the loop body of lines 314-315: residual[c2] -= pres*amt2 for every item of comp
RECURSIVE Subtract(_, _, _, _)
Subtract(residual, comp, pres, j) ==
  IF j > Len(comp) THEN residual
  ELSE Subtract(DictSet(residual, comp[j][1],
                        RSub(DictGet(residual, comp[j][1]), RMul(pres, comp[j][2]))),
                comp, pres, j + 1)

\* the loop of lines 312-315 from item i on; comp is the sequence of the target's items
RECURSIVE PullOut(_, _, _)
PullOut(residual, comp, i) ==
  IF i > Len(comp) THEN Ok(residual)
  ELSE IF RIsZero(comp[i][2]) THEN Fail("ZeroDivisionError")
  ELSE LET r0 == DictSet(residual, comp[i][1], DictGet(residual, comp[i][1]))
           pres == RDiv(r0[comp[i][1]], comp[i][2])
       IN  PullOut(Subtract(r0, comp, pres, 1), comp, i + 1)

\* sum(comp.values()) of a sequence of items
RECURSIVE SumItems(_, _)
SumItems(comp, i) == IF i > Len(comp) THEN R(0) ELSE RAdd(comp[i][2], SumItems(comp, i + 1))

\* lines 310-318, shared by amt (base = self.comp) and fraction (base = self.unit_comp)
Extract(base, comp) ==
  LET tot == SumValues(base)
      r == PullOut(base, comp, 1)
  IN  IF r.err # "" THEN r
      ELSE IF RIsZero(SumItems(comp, 1)) THEN Fail("ZeroDivisionError")
      ELSE Ok(DictSet(r.val, "var",
                      RDiv(RSub(tot, SumValues(r.val)), SumItems(comp, 1))))

\* Phase.amt; the target composition is the sequence of its items in iteration order
amt(self, comp) == Extract(self.comp, comp)

\* unit_comp of a target given as a sequence of items (the str and Phase cases of fraction)
UnitItems(comp) == [i \in 1..Len(comp) |-> <<comp[i][1], RDiv(comp[i][2], SumItems(comp, 1))>>]

\* Phase.fraction
fraction(self, comp) ==
  IF RIsZero(SumItems(comp, 1)) THEN Fail("ZeroDivisionError")
  ELSE Extract(self.unit_comp, UnitItems(comp))

\* line 158: sum([amt*p.energy for p, amt in phase_dict.items()])
RECURSIVE SumEnergy(_, _)
SumEnergy(pd, i) ==
  IF i > Len(pd) THEN R(0)
  ELSE RAdd(RMul(pd[i][2], pd[i][1].energy), SumEnergy(pd, i + 1))

\* lines 160-163: comp[e] += amt*factor
RECURSIVE SumComp(_, _)
SumComp(pd, i) ==
  IF i = 0 THEN EmptyDict
  ELSE LET prev == SumComp(pd, i - 1)
           u == pd[i][1].unit_comp
       IN  [e \in (DOMAIN prev) \cup (DOMAIN u) |->
              IF e \in DOMAIN u THEN RAdd(DictGet(prev, e), RMul(u[e], pd[i][2]))
              ELSE prev[e]]

\* Phase.from_phases; phase_dict is the sequence of <<phase, amount>> items
from_phases(pd) ==
  IF Len(pd) = 1 THEN [err |-> "TypeError", obj |-> <<>>]
  ELSE LET r == PhaseInit([composition |-> <<SumComp(pd, Len(pd))>>,
                           energy |-> <<SumEnergy(pd, 1)>>,
                           per_atom |-> FALSE, name |-> <<>>])
       IN  IF r.err # "" THEN r
           ELSE [err |-> "", obj |-> <<[r.obj[1] EXCEPT !.phase_dict = pd]>>]

(***************************************************************************)
(* class PhaseData.  The container holds references (positions in `heap`)  *)
(* to Phase objects.  A container state is the record                      *)
(* [heap, phases, phase_dict, phases_by_elt, phases_by_dim, space].        *)
(***************************************************************************)

\* set.add(phase): a Python set keeps one of the members that hash alike and compare equal
SetAdd(S, i, h) ==
  IF \E j \in S : j = i \/ (Hash(h[j]) = Hash(h[i]) /\ Eq(h[j], h[i])) THEN S
  ELSE S \cup {i}

\* phase in S for a Python set S
SetHas(S, i, h) == \E j \in S : j = i \/ (Hash(h[j]) = Hash(h[i]) /\ Eq(h[j], h[i]))

\* d[k] of a defaultdict(set)
Bucket(d, k) == IF k \in DOMAIN d THEN d[k] ELSE {}

\* a clear that leaves space and the element index as they are
clear_m(s) ==
  [heap |-> s.heap, phases |-> <<>>,
   phases_by_elt |-> s.phases_by_elt, phases_by_dim |-> [k \in {} |-> {}],
   phase_dict |-> [k \in {} |-> 0], space |-> s.space]

\* PhaseData.clear
clear(s) ==
  [heap |-> s.heap, phases |-> <<>>,
   phases_by_elt |-> [k \in {} |-> {}], phases_by_dim |-> [k \in {} |-> {}],
   phase_dict |-> [k \in {} |-> 0], space |-> {}]

\* lines 72-73: for elt in phase.comp: self.phases_by_elt[elt].add(phase)
AddByElt(d, i, h) ==
  [e \in (DOMAIN d) \cup (DOMAIN h[i].comp) |->
     IF e \in DOMAIN h[i].comp THEN SetAdd(Bucket(d, e), i, h) ELSE d[e]]

\* line 74: self.phases_by_dim[len(phase.comp)].add(phase)
AddByDim(d, i, h) ==
  LET dim == Cardinality(DOMAIN h[i].comp)
  IN  [k \in (DOMAIN d) \cup {dim} |->
         IF k = dim THEN SetAdd(Bucket(d, dim), i, h) ELSE d[k]]

\* a replacement on an energy tie as well
AddByName_m(d, i, h) ==
  LET nm == name(h[i])
  IN  IF nm \notin DOMAIN d THEN [k \in (DOMAIN d) \cup {nm} |-> IF k = nm THEN i ELSE d[k]]
      ELSE IF ~RLt(h[d[nm]].energy, h[i].energy) THEN [d EXCEPT ![nm] = i]
      ELSE d

\* lines 64-68: keep the phase of lower energy under its name
AddByName(d, i, h) ==
  LET nm == name(h[i])
  IN  IF nm \notin DOMAIN d THEN [k \in (DOMAIN d) \cup {nm} |-> IF k = nm THEN i ELSE d[k]]
      ELSE IF RLt(h[i].energy, h[d[nm]].energy) THEN [d EXCEPT ![nm] = i]
      ELSE d

\* the index taken before the append
AssignIndex_m(h, i, ps) == [h EXCEPT ![i].index = Len(ps) - 1]

\* line 70: phase.index = len(self._phases)
AssignIndex(h, i, ps) == [h EXCEPT ![i].index = Len(ps)]

\* an assignment in place of the union
AddSpace_m(sp, i, h) == DOMAIN h[i].comp

\* line 76: self.space |= set(phase.comp.keys())
AddSpace(sp, i, h) == sp \cup DOMAIN h[i].comp

\* PhaseData.add_phase; i is the reference of the phase
add_phase(s, i) ==
  LET ps == Append(s.phases, i)
  IN  [heap |-> AssignIndex(s.heap, i, ps),
       phases |-> ps,
       phases_by_elt |-> AddByElt(s.phases_by_elt, i, s.heap),
       phases_by_dim |-> AddByDim(s.phases_by_dim, i, s.heap),
       phase_dict |-> AddByName(s.phase_dict, i, s.heap),
       space |-> AddSpace(s.space, i, s.heap)]

\* PhaseData.add_phases
RECURSIVE add_phases(_, _)
add_phases(s, ps) ==
  IF ps = <<>> THEN s ELSE add_phases(add_phase(s, Head(ps)), Tail(ps))

\* PhaseData.phases setter
set_phases(s, ps) == add_phases(clear(s), ps)

\* PhaseData.__init__ : a new container beside the objects of heap h
NewPhaseData(h) ==
  clear([heap |-> h, phases |-> <<>>,
         phases_by_elt |-> [k \in {} |-> {}], phases_by_dim |-> [k \in {} |-> {}],
         phase_dict |-> [k \in {} |-> 0], space |-> {}])

(***************************************************************************)
(* Inputs.                                                                 *)
(***************************************************************************)
Fe2O3 == [Fe |-> R(2), O |-> R(3)]
Fe4O6 == [Fe |-> R(4), O |-> R(6)]
Li2O == [Li |-> R(2), O |-> R(1)]
FeO0 == [Fe |-> R(1), O |-> R(0)]
FeLi5O8 == [Fe |-> R(1), Li |-> R(5), O |-> R(8)]
AllZero == [Fe |-> R(0), O |-> R(0)]

Args(c, e, pa, nm) == [composition |-> c, energy |-> e, per_atom |-> pa, name |-> nm]

\* constructor arguments of the phases handed to the container
Records ==
  { Args(<<Fe2O3>>, <<R(-3)>>, TRUE, <<>>),
    Args(<<Fe2O3>>, <<R(-5)>>, TRUE, <<>>),
    Args(<<FeO0>>, <<R(-1)>>, TRUE, <<>>),
    Args(<<Li2O>>, <<R(-3)>>, TRUE, format_comp(Fe2O3)) }

\* constructor arguments that build a phase
ValidArgs ==
  Records \cup { Args(<<Fe4O6>>, <<R(-30)>>, FALSE, <<>>),
                 Args(<<FeLi5O8>>, <<R(-1)>>, TRUE, <<>>) }

\* constructor arguments with a missing or degenerate composition or energy
InvalidArgs ==
  { Args(<<>>, <<R(-1)>>, TRUE, <<>>),
    Args(<<Fe2O3>>, <<>>, TRUE, <<>>),
    Args(<<EmptyDict>>, <<R(-1)>>, TRUE, <<>>),
    Args(<<EmptyDict>>, <<R(-1)>>, FALSE, <<>>),
    Args(<<AllZero>>, <<R(-1)>>, TRUE, <<>>),
    Args(<<AllZero>>, <<R(-1)>>, FALSE, <<>>) }

CtorArgs == ValidArgs \cup InvalidArgs

\* values assigned through the energy setters
SetterValues == {R(-6), R(-10)}

\* target compositions of amt and fraction, as items in iteration order
Targets ==
  { << <<"Li", R(2)>>, <<"O", R(1)>> >>,
    << <<"O", R(1)>>, <<"Li", R(2)>> >>,
    << <<"Fe", R(2)>>, <<"O", R(3)>> >>,
    << <<"O", R(3)>>, <<"Fe", R(2)>> >>,
    << <<"Fe", R(1)>> >>,
    << <<"Fe", R(1)>>, <<"O", R(0)>> >> }

New(a) == PhaseInit(a).obj[1]

\* arguments of from_phases
Mappings ==
  { <<>>,
    << <<New(Args(<<Fe2O3>>, <<R(-3)>>, TRUE, <<>>)), R(1)>> >>,
    << <<New(Args(<<Li2O>>, <<R(-3)>>, TRUE, <<>>)), R(2)>> >>,
    << <<New(Args(<<Fe2O3>>, <<R(-3)>>, TRUE, <<>>)), R(1)>>,
       <<New(Args(<<Li2O>>, <<R(-3)>>, TRUE, <<>>)), R(2)>> >> }

\* the sequences of distinct references drawn from refs: the batches handed to
\* add_phases and to the phases setter
RECURSIVE Batches(_)
Batches(refs) ==
  {<<>>} \cup UNION { { <<i>> \o q : q \in Batches(refs \ {i}) } : i \in refs }

(***************************************************************************)
(* State.  heap: the Phase objects the caller holds; phases .. space: the  *)
(* attributes of one PhaseData; ph: a Phase object under test (<<>> when   *)
(* none); last: the last call, its arguments and its outcome.              *)
(***************************************************************************)
State == [heap |-> heap, phases |-> phases, phases_by_elt |-> phases_by_elt,
          phases_by_dim |-> phases_by_dim, phase_dict |-> phase_dict, space |-> space]

Call(op, arg, err) ==
  [op |-> op, arg |-> arg, err |-> err, ctor |-> <<>>, target |-> <<>>,
   pd |-> <<>>, ret |-> EmptyDict]

Install(s) ==
  /\ heap' = s.heap
  /\ phases' = s.phases
  /\ phases_by_elt' = s.phases_by_elt
  /\ phases_by_dim' = s.phases_by_dim
  /\ phase_dict' = s.phase_dict
  /\ space' = s.space

Init ==
  /\ heap = <<>>
  /\ phases = NewPhaseData(<<>>).phases
  /\ phases_by_elt = NewPhaseData(<<>>).phases_by_elt
  /\ phases_by_dim = NewPhaseData(<<>>).phases_by_dim
  /\ phase_dict = NewPhaseData(<<>>).phase_dict
  /\ space = NewPhaseData(<<>>).space
  /\ ph = <<>>
  /\ last = Call("init", <<>>, "")

pdvars == <<heap, phases, phase_dict, phases_by_elt, phases_by_dim, space>>

(***************************************************************************)
(* Actions on the container.                                               *)
(***************************************************************************)
\* p = Phase(...): the caller constructs a phase and keeps it
NewPhase ==
  \E a \in Records :
    LET r == PhaseInit(a)
    IN  /\ Len(heap) < MaxObjs
        /\ heap' = IF r.err = "" THEN heap \o r.obj ELSE heap
        /\ last' = Call("Phase", <<>>, r.err)
        /\ UNCHANGED <<phases, phase_dict, phases_by_elt, phases_by_dim, space, ph>>

AddPhase ==
  \E i \in 1..Len(heap) :
    /\ Len(phases) < MaxPhases
    /\ \E s \in {add_phase(State, i)} : Install(s)
    /\ last' = Call("add_phase", <<>>, "")
    /\ UNCHANGED ph

AddPhases ==
  \E ps \in Batches(1..Len(heap)) :
    /\ Len(phases) + Len(ps) <= MaxPhases
    /\ \E s \in {add_phases(State, ps)} : Install(s)
    /\ last' = Call("add_phases", <<>>, "")
    /\ UNCHANGED ph

Clear ==
  /\ \E s \in {clear(State)} : Install(s)
  /\ last' = Call("clear", <<>>, "")
  /\ UNCHANGED ph

\* pd.phases = ps
SetPhases ==
  \E ps \in Batches(1..Len(heap)) :
    /\ Len(ps) <= MaxPhases
    /\ \E s \in {set_phases(State, ps)} : Install(s)
    /\ last' = Call("phases", ps, "")
    /\ UNCHANGED ph

Next == NewPhase \/ AddPhase \/ AddPhases \/ Clear \/ SetPhases

Spec == Init /\ [][Next]_vars

(***************************************************************************)
(* Actions on one Phase object.                                            *)
(***************************************************************************)
Construct ==
  \E a \in CtorArgs :
    LET r == PhaseInit(a)
    IN  /\ ph' = IF r.err = "" THEN r.obj ELSE ph
        /\ last' = [Call("Phase", <<>>, r.err) EXCEPT !.ctor = <<a>>]
        /\ UNCHANGED pdvars

Setter(op, r) ==
  /\ ph' = <<r.obj>>
  /\ last' = Call(op, <<>>, r.err)
  /\ UNCHANGED pdvars

SetEnergy == \E e \in SetterValues : ph # <<>> /\ Setter("energy", set_energy(ph[1], e))

SetTotalEnergy ==
  \E e \in SetterValues : ph # <<>> /\ Setter("total_energy", set_total_energy(ph[1], e))

SetEnergyPfu ==
  \E e \in SetterValues : ph # <<>> /\ Setter("energy_pfu", set_energy_pfu(ph[1], e))

Amt ==
  \E t \in Targets :
    LET r == amt(ph[1], t)
    IN  /\ ph # <<>>
        /\ last' = [Call("amt", <<>>, r.err) EXCEPT !.target = t, !.ret = r.val]
        /\ UNCHANGED <<ph, pdvars>>

Fraction ==
  \E t \in Targets :
    LET r == fraction(ph[1], t)
    IN  /\ ph # <<>>
        /\ last' = [Call("fraction", <<>>, r.err) EXCEPT !.target = t, !.ret = r.val]
        /\ UNCHANGED <<ph, pdvars>>

FromPhases ==
  \E m \in Mappings :
    LET r == from_phases(m)
    IN  /\ ph' = IF r.err = "" THEN r.obj ELSE ph
        /\ last' = [Call("from_phases", <<>>, r.err) EXCEPT !.pd = m]
        /\ UNCHANGED pdvars

NextPhase ==
  Construct \/ SetEnergy \/ SetTotalEnergy \/ SetEnergyPfu \/ Amt \/ Fraction \/ FromPhases

SpecPhase == Init /\ [][NextPhase]_vars

(***************************************************************************)
(* Properties of the container (specification Spec).                       *)
(***************************************************************************)
Positions == 1..Len(phases)
NameAt(k) == name(heap[phases[k]])
EnergyAt(k) == heap[phases[k]].energy
Nonzero(p) == {e \in DOMAIN p.comp : ~RIsZero(p.comp[e])}

\* the position of the phase that phase_dict must hold for the name of position k:
\* the lowest energy among the added phases of that name, the earliest on a tie
BestOf(k) ==
  LET same == {j \in Positions : NameAt(j) = NameAt(k)}
  IN  CHOOSE j \in same :
        \A m \in same : RLt(EnergyAt(j), EnergyAt(m)) \/ (EnergyAt(j) = EnergyAt(m) /\ j <= m)

\* C1: phase_dict has exactly the names of the added phases, and under each name the
\* added phase of minimum per-atom energy, the earliest added one on an energy tie.
Thm_C1 ==
  /\ DOMAIN phase_dict = {NameAt(k) : k \in Positions}
  /\ \A k \in Positions : phase_dict[NameAt(k)] = phases[BestOf(k)]

\* two distinct phases of one name were added, the later of strictly lower energy,
\* and phase_dict holds the later one
Wit_C1 ==
  \E j, k \in Positions :
    /\ j < k /\ phases[j] # phases[k] /\ NameAt(j) = NameAt(k)
    /\ RLt(EnergyAt(k), EnergyAt(j))
    /\ phase_dict[NameAt(k)] = phases[k]

\* C2 (as claimed): phases_by_elt[e] contains every added phase with a nonzero amount
\* of e and no other phase.
Claim_C2 ==
  \A e \in Elements :
    /\ \A k \in Positions :
         e \in Nonzero(heap[phases[k]]) => SetHas(Bucket(phases_by_elt, e), phases[k], heap)
    /\ \A i \in Bucket(phases_by_elt, e) :
         (\E k \in Positions : phases[k] = i) /\ e \in Nonzero(heap[i])

\* C3 (as claimed): phases_by_dim[d] contains exactly the added phases with exactly d
\* distinct elements of nonzero amount.
Claim_C3 ==
  \A d \in 0..Cardinality(Elements) :
    /\ \A k \in Positions :
         Cardinality(Nonzero(heap[phases[k]])) = d
           => SetHas(Bucket(phases_by_dim, d), phases[k], heap)
    /\ \A i \in Bucket(phases_by_dim, d) :
         (\E k \in Positions : phases[k] = i) /\ Cardinality(Nonzero(heap[i])) = d

\* C4 (as claimed): every phase of the collection has index equal to its position.
Claim_C4 == \A k \in Positions : heap[phases[k]].index = k

LastPositionOf(i) == CHOOSE k \in Positions : phases[k] = i /\ \A j \in Positions : phases[j] = i => j <= k

IsPrefix(p, q) == Len(p) <= Len(q) /\ SubSeq(q, 1, Len(p)) = p

\* C4 (amended): add_phase appends exactly one entry and add_phases only appends, leaving
\* the earlier entries in place, and every phase object of the collection has index equal
\* to the position of its most recent insertion.
Thm_C4 ==
  /\ [](\A k \in Positions : heap[phases[k]].index = LastPositionOf(phases[k]))
  /\ [][/\ last'.op = "add_phase"
             => Len(phases') = Len(phases) + 1 /\ IsPrefix(phases, phases')
        /\ last'.op = "add_phases" => IsPrefix(phases, phases')]_vars

\* one phase object was added twice: it sits at positions 1 and 2 and its index is 2
Wit_C4 ==
  /\ Len(phases) = 2 /\ phases[1] = phases[2]
  /\ last.op = "add_phase"
  /\ heap[phases[1]].index = 2

\* C5: space is the union of the elements of the compositions of the added phases, and
\* no call other than clear and the phases setter removes an element from it.
Thm_C5 ==
  /\ [](space = UNION {DOMAIN heap[phases[k]].comp : k \in Positions})
  /\ [][last'.op \notin {"clear", "phases"} => space \subseteq space']_vars

\* phases over Fe-O and over Li-O were added: space is {Fe, Li, O}
Wit_C5 ==
  /\ Len(phases) = 2
  /\ DOMAIN heap[phases[1]].comp # DOMAIN heap[phases[2]].comp
  /\ space = {"Fe", "Li", "O"}

\* C6: after pd.phases = S the container is in the state of a new PhaseData on which
\* add_phases(S) was called, and after clear() every attribute is empty.
Thm_C6 ==
  /\ last.op = "phases" => State = add_phases(NewPhaseData(heap), last.arg)
  /\ last.op = "clear"
       => /\ phases = <<>> /\ DOMAIN phase_dict = {} /\ space = {}
          /\ \A e \in Elements : Bucket(phases_by_elt, e) = {}
          /\ \A d \in 0..Cardinality(Elements) : Bucket(phases_by_dim, d) = {}

\* the setter ran on a container with an earlier history: a phase that was added before
\* (its index is set) is not among the phases assigned
Wit_C6 ==
  /\ last.op = "phases" /\ Len(last.arg) >= 1
  /\ \E i \in 1..Len(heap) :
       /\ heap[i].index # 0
       /\ \A k \in Positions : phases[k] # i
       /\ DOMAIN heap[i].comp # DOMAIN heap[phases[1]].comp

(***************************************************************************)
(* Properties of one Phase object (specification SpecPhase).               *)
(***************************************************************************)
\* C7 (as claimed): the three energy views of every phase satisfy
\* total_energy = energy * n_atoms = energy_pfu * n_nominal_atoms.
Claim_C7 ==
  ph # <<>> =>
    /\ ph[1].total_energy = RMul(ph[1].energy, n_atoms(ph[1]))
    /\ ph[1].total_energy = RMul(ph[1].energy_pfu, natoms(ph[1]))

\* the arguments for which construction must fail
Degenerate(a) ==
  \/ a.composition = <<>>
  \/ a.energy = <<>>
  \/ \A e \in DOMAIN a.composition[1] : RIsZero(a.composition[1][e])

\* C8: construction fails when the composition or the energy is None (PhaseError) and
\* when the composition is empty or all-zero, and every constructed phase has
\* n_atoms > 0.
Thm_C8 ==
  /\ last.op = "Phase" /\ Degenerate(last.ctor[1]) => last.err # ""
  /\ last.op = "Phase" /\ (last.ctor[1].composition = <<>> \/ last.ctor[1].energy = <<>>)
       => last.err = "PhaseError"
  /\ ph # <<>> => RLt(R(0), n_atoms(ph[1]))

\* a construction from an empty composition and a total energy has just failed
Wit_C8 ==
  /\ last.op = "Phase"
  /\ last.ctor[1].composition = <<EmptyDict>>
  /\ ~last.ctor[1].per_atom
  /\ last.err = "ZeroDivisionError"

\* the target composition of the last amt call, as a dict
TargetAmt(e) ==
  LET i == CHOOSE j \in 1..Len(last.target) : last.target[j][1] = e IN last.target[i][2]

TargetElts == {last.target[j][1] : j \in 1..Len(last.target)}

\* min over the elements e of the target of C[e] / T[e]
LimitingRatio ==
  LET ratio(e) == RDiv(DictGet(ph[1].comp, e), TargetAmt(e))
      lim == CHOOSE e \in TargetElts : \A f \in TargetElts : ~RLt(ratio(f), ratio(e))
  IN  ratio(lim)

\* C9 (as claimed): for a target T of positive amounts amt(T) returns var = min over e
\* of C[e]/T[e], and every residual amount is C[e] - var*T[e] and is non-negative.
Claim_C9 ==
  (/\ last.op = "amt"
   /\ \A j \in 1..Len(last.target) : RLt(R(0), last.target[j][2]))
  => /\ last.err = ""
     /\ last.ret["var"] = LimitingRatio
     /\ \A e \in DOMAIN last.ret \ {"var"} :
          /\ last.ret[e] = RSub(DictGet(ph[1].comp, e),
                                RMul(last.ret["var"],
                                     IF e \in TargetElts THEN TargetAmt(e) ELSE R(0)))
          /\ ~RLt(last.ret[e], R(0))

\* C10 (as claimed): from_phases of a mapping with one entry {p: amount} returns p and
\* raises nothing.
Claim_C10 ==
  (last.op = "from_phases" /\ Len(last.pd) = 1)
  => last.err = "" /\ ph = <<last.pd[1][1]>>

====
